---- MODULE Spec2Model ----
(***************************************************************************)
(* Students API: the versioned student record with its edit history        *)
(* (app/main.py, app/models.py, app/schemas.py) and the derived id         *)
(* resolver (app/utils.py).                                                *)
(*                                                                         *)
(* Every request runs in its own worker with its own database Session.     *)
(* A worker's steps are the places where it touches something shared: the  *)
(* database (db.get, db.commit, db.refresh) and the wall clock             *)
(* (datetime.utcnow).  What lies between two such places works on objects  *)
(* local to the request and belongs to the step that precedes it.          *)
(***************************************************************************)
EXTENDS Integers, Sequences, FiniteSets, TLC

\* ------------------------------------------------------------------ bounds
MaxClock == 2        \* datetime.utcnow() returns a value in 0..MaxClock
MaxHistory == 3      \* update requests admitted, hence rows of student_history
MaxDobLen == 9       \* longest dob handed to build_student_id
MaxPhoneLen == 21    \* longest phone handed to build_student_id

Workers == {"w1", "w2"}          \* requests served at the same time
Ids == {"id1"}                   \* values generate_student_id can return
Tokens == {"tok1"}               \* values generate_edit_token can return
WrongToken == "guess"            \* a token no record was ever given
NoId == "-"
NoToken == "-"
None == "None"
Names == {None, "Alice"}         \* Optional[str] name of a request body

VARIABLES
    students,   \* table students: stored id -> row
    history,    \* table student_history, in insertion order (history_id = index)
    clock,      \* datetime.utcnow()
    pc,         \* each worker's position in its handler
    req,        \* the request each worker is serving
    obj,        \* the Student object held by each worker's Session
    now,        \* the timestamp each worker took
    token,      \* the edit_token each create_student call generated
    resp,       \* the last response each worker returned
    disclosed,  \* per student id: responses so far that carried its edit_token
    dob, phone, \* arguments of build_student_id
    result,     \* outcome of build_student_id(dob, phone)
    again       \* outcome of a second call with the same arguments

idvars == <<dob, phone, result, again>>
vars == <<students, history, clock, pc, req, obj, now, token, resp, disclosed,
          dob, phone, result, again>>

\* ------------------------------------------------------------------ rows
Student(id, name, edit_token, version, updated_at) ==
    [id |-> id, dob |-> None, phone |-> None, name |-> name,
     edit_token |-> edit_token, version |-> version, updated_at |-> updated_at]

NoStudent == Student(NoId, None, NoToken, 0, 0)

\* Session.commit() expires the attributes of the objects it holds: only the
\* identity is left until the next load
Expired(o) == Student(o.id, None, NoToken, 0, 0)

\* history_id is the row's position in the table; changed_at, which the
\* INSERT fills in and no handler reads, is left out
StudentHistory(student_id, version, snapshot) ==
    [student_id |-> student_id, version |-> version, snapshot |-> snapshot]

\* datetime.isoformat(): a string, no longer a datetime
isoformat(dt) == <<"iso", dt>>

\* ------------------------------------------------------------------ schemas
StudentCreatedOut(id, name, version, updated_at, edit_token) ==
    [id |-> id, name |-> name, version |-> version, updated_at |-> updated_at,
     edit_token |-> edit_token]

StudentOut(id, name, version, updated_at) ==
    [id |-> id, name |-> name, version |-> version, updated_at |-> updated_at]

HTTPException(status_code, detail) ==
    [status |-> status_code, body |-> [detail |-> detail]]

Ok(body) == [status |-> 200, body |-> body]

NoResp == [op |-> "none", status |-> 0, body |-> [detail |-> "no response yet"]]

Request(op, student_id, edit_token, name) ==
    [op |-> op, student_id |-> student_id, edit_token |-> edit_token, name |-> name]

NoRequest == Request("none", NoId, NoToken, None)

\* ------------------------------------------------------------------ random strategy
generate_student_id == Ids
generate_edit_token == Tokens

\* ------------------------------------------------------------------ helpers
InFlightUpdates ==
    Cardinality({p \in Workers : req[p].op = "update_student"})

\* the handler returns or raises: the response goes out, the Session closes
Reply(p, r) ==
    /\ resp' = [resp EXCEPT ![p] = [op |-> req[p].op] @@ r]
    /\ disclosed' = IF "edit_token" \in DOMAIN r.body
                      THEN [disclosed EXCEPT ![r.body.id] = @ + 1]
                      ELSE disclosed
    /\ pc' = [pc EXCEPT ![p] = "idle"]
    /\ req' = [req EXCEPT ![p] = NoRequest]
    /\ obj' = [obj EXCEPT ![p] = NoStudent]
    /\ now' = [now EXCEPT ![p] = 0]
    /\ token' = [token EXCEPT ![p] = NoToken]

Receive(p, r) ==
    /\ req' = [req EXCEPT ![p] = r]
    /\ pc' = [pc EXCEPT ![p] = "recv"]
    /\ resp' = [resp EXCEPT ![p] = NoResp]
    /\ UNCHANGED <<students, history, clock, obj, now, token, disclosed>>
    /\ UNCHANGED idvars

\* ------------------------------------------------------------------ clock
\* datetime.utcnow(): some time has passed since the clock was last read
utcnow(t) ==
    /\ t \in clock..MaxClock
    /\ clock' = t

\* ------------------------------------------------------------------ routes
\* POST /students with a StudentCreate body
post_students(p) ==
    /\ pc[p] = "idle"
    /\ \E name \in Names :
          Receive(p, Request("create_student", NoId, NoToken, name))

\* GET /students/{student_id}
get_students(p) ==
    /\ pc[p] = "idle"
    /\ \E sid \in Ids :
          Receive(p, Request("get_student", sid, NoToken, None))

\* PUT /students/{student_id} with a StudentUpdate body
put_students(p) ==
    /\ pc[p] = "idle"
    /\ Len(history) + InFlightUpdates < MaxHistory
    /\ \E sid \in Ids, tok \in Tokens \cup {WrongToken}, name \in Names :
          Receive(p, Request("update_student", sid, tok, name))

\* ------------------------------------------------------------------ create_student
\* now = utcnow(); fresh id and token; the Student object, not yet stored
create_student(p) ==
    /\ pc[p] = "recv"
    /\ req[p].op = "create_student"
    /\ \E t \in 0..MaxClock, student_id \in generate_student_id,
          edit_token \in generate_edit_token :
          /\ utcnow(t)
          /\ obj' = [obj EXCEPT ![p] =
                       Student(student_id, req[p].name, edit_token, 1, t)]
          /\ token' = [token EXCEPT ![p] = edit_token]
    /\ pc' = [pc EXCEPT ![p] = "create_commit"]
    /\ UNCHANGED <<students, history, req, now, resp, disclosed>>
    /\ UNCHANGED idvars

\* db.add(student); db.commit(): INSERT INTO students, refused on a
\* primary key that is already stored
create_commit(p) ==
    /\ pc[p] = "create_commit"
    /\ IF obj[p].id \in DOMAIN students
         THEN /\ Reply(p, HTTPException(500, "Internal Server Error"))
              /\ UNCHANGED students
         ELSE /\ students' = [s \in DOMAIN students \cup {obj[p].id} |->
                                IF s = obj[p].id THEN obj[p] ELSE students[s]]
              /\ obj' = [obj EXCEPT ![p] = Expired(@)]
              /\ pc' = [pc EXCEPT ![p] = "create_refresh"]
              /\ UNCHANGED <<req, now, token, resp, disclosed>>
    /\ UNCHANGED <<history, clock>>
    /\ UNCHANGED idvars

\* db.refresh(student); return StudentCreatedOut(..., edit_token=edit_token)
create_return(p) ==
    /\ pc[p] = "create_refresh"
    /\ LET student == students[obj[p].id] IN
         Reply(p, Ok(StudentCreatedOut(student.id, student.name, student.version,
                                      isoformat(student.updated_at), token[p])))
    /\ UNCHANGED <<students, history, clock>>
    /\ UNCHANGED idvars

\* ------------------------------------------------------------------ get_student
get_student_leaky(p) ==
    /\ pc[p] = "recv"
    /\ req[p].op = "get_student"
    /\ IF req[p].student_id \notin DOMAIN students
         THEN Reply(p, HTTPException(404, "student not found"))
         ELSE LET o == students[req[p].student_id] IN
                Reply(p, Ok(StudentCreatedOut(o.id, o.name, o.version,
                                              isoformat(o.updated_at), o.edit_token)))
    /\ UNCHANGED <<students, history, clock>>
    /\ UNCHANGED idvars

get_student(p) ==
    /\ pc[p] = "recv"
    /\ req[p].op = "get_student"
    /\ IF req[p].student_id \notin DOMAIN students
         THEN Reply(p, HTTPException(404, "student not found"))
         ELSE LET o == students[req[p].student_id] IN
                Reply(p, Ok(StudentOut(o.id, o.name, o.version,
                                       isoformat(o.updated_at))))
    /\ UNCHANGED <<students, history, clock>>
    /\ UNCHANGED idvars

\* ------------------------------------------------------------------ update_student
\* the token check left out
update_student_unchecked(p) ==
    /\ pc[p] = "recv"
    /\ req[p].op = "update_student"
    /\ IF req[p].student_id \notin DOMAIN students
         THEN Reply(p, HTTPException(404, "student not found"))
         ELSE /\ obj' = [obj EXCEPT ![p] = students[req[p].student_id]]
              /\ pc' = [pc EXCEPT ![p] = "update_loaded"]
              /\ UNCHANGED <<req, now, token, resp, disclosed>>
    /\ UNCHANGED <<students, history, clock>>
    /\ UNCHANGED idvars

\* the token compared before the object is known to exist: obj is None and
\* obj.edit_token raises AttributeError
update_student_unguarded(p) ==
    /\ pc[p] = "recv"
    /\ req[p].op = "update_student"
    /\ IF req[p].student_id \notin DOMAIN students
         THEN Reply(p, HTTPException(500, "Internal Server Error"))
         ELSE IF students[req[p].student_id].edit_token # req[p].edit_token
         THEN Reply(p, HTTPException(403, "invalid edit token"))
         ELSE /\ obj' = [obj EXCEPT ![p] = students[req[p].student_id]]
              /\ pc' = [pc EXCEPT ![p] = "update_loaded"]
              /\ UNCHANGED <<req, now, token, resp, disclosed>>
    /\ UNCHANGED <<students, history, clock>>
    /\ UNCHANGED idvars

\* obj = db.get(Student, student_id); 404 when absent; 403 on a token mismatch
update_student(p) ==
    /\ pc[p] = "recv"
    /\ req[p].op = "update_student"
    /\ IF req[p].student_id \notin DOMAIN students
         THEN Reply(p, HTTPException(404, "student not found"))
         ELSE IF students[req[p].student_id].edit_token # req[p].edit_token
         THEN Reply(p, HTTPException(403, "invalid edit token"))
         ELSE /\ obj' = [obj EXCEPT ![p] = students[req[p].student_id]]
              /\ pc' = [pc EXCEPT ![p] = "update_loaded"]
              /\ UNCHANGED <<req, now, token, resp, disclosed>>
    /\ UNCHANGED <<students, history, clock>>
    /\ UNCHANGED idvars

\* snapshot = {...}: the fields of the loaded object
Snapshot(o) ==
    [id |-> o.id, dob |-> o.dob, phone |-> o.phone, name |-> o.name,
     version |-> o.version, updated_at |-> isoformat(o.updated_at)]

\* snapshot, hist, the new field values; obj.updated_at = datetime.utcnow()
update_stamp(p) ==
    /\ pc[p] = "update_loaded"
    /\ \E t \in 0..MaxClock :
          /\ utcnow(t)
          /\ now' = [now EXCEPT ![p] = t]
    /\ pc' = [pc EXCEPT ![p] = "update_commit"]
    /\ UNCHANGED <<students, history, req, obj, token, resp, disclosed>>
    /\ UNCHANGED idvars

\* if payload.name is not None: obj.name = payload.name
NewName(o, payload) == IF payload.name # None THEN payload.name ELSE o.name

\* the increment forgotten
NewVersionSame(o) == IF o.version = 0 THEN 1 ELSE o.version

\* obj.version = (obj.version or 1) + 1
NewVersion(o) == (IF o.version = 0 THEN 1 ELSE o.version) + 1

\* The UPDATE that the flush emits sets the columns whose assigned value
\* differs from the loaded one, WHERE id = obj.id and nothing else: the
\* Student mapper has no version_id_col and db.get takes no row lock.
Flushed(row, o, name, version, updated_at) ==
    [row EXCEPT !.name = IF name # o.name THEN name ELSE @,
                !.version = IF version # o.version THEN version ELSE @,
                !.updated_at = IF updated_at # o.updated_at THEN updated_at ELSE @]

\* db.add(hist); db.add(obj); db.commit(): one transaction holding the
\* INSERT INTO student_history and the UPDATE students
update_commit(p) ==
    /\ pc[p] = "update_commit"
    /\ history' = Append(history,
                         StudentHistory(obj[p].id, obj[p].version,
                                        Snapshot(obj[p])))
    /\ students' = [students EXCEPT ![obj[p].id] =
                      Flushed(@, obj[p], NewName(obj[p], req[p]),
                              NewVersion(obj[p]), now[p])]
    /\ obj' = [obj EXCEPT ![p] = Expired(@)]
    /\ now' = [now EXCEPT ![p] = 0]
    /\ pc' = [pc EXCEPT ![p] = "update_refresh"]
    /\ UNCHANGED <<clock, req, token, resp, disclosed>>
    /\ UNCHANGED idvars

\* db.refresh(obj); return StudentOut(...)
update_return(p) ==
    /\ pc[p] = "update_refresh"
    /\ LET o == students[obj[p].id] IN
         Reply(p, Ok(StudentOut(o.id, o.name, o.version,
                                isoformat(o.updated_at))))
    /\ UNCHANGED <<students, history, clock>>
    /\ UNCHANGED idvars

\* ------------------------------------------------------------------ build_student_id
Digits == {"0", "1", "2", "3", "4", "5", "6", "7", "8", "9"}
DigitRow == <<"0", "1", "2", "3", "4", "5", "6", "7", "8", "9">>

\* a Python value handed to the resolver: a str with its characters, or
\* something that is not a str
Str(chars) == [type |-> "str", chars |-> chars]
NotStr == [type |-> "int", chars |-> <<>>]

isinstance_str(x) == x.type = "str"
len(x) == Len(x.chars)
\* str.isdigit(): at least one character, and every character a digit
isdigit(x) == Len(x.chars) > 0 /\ \A i \in 1..Len(x.chars) : x.chars[i] \in Digits

Returned(value) == [kind |-> "return", value |-> value, message |-> ""]
ValueError(message) == [kind |-> "raise", value |-> Str(<<>>), message |-> message]
NotCalled == [kind |-> "none", value |-> Str(<<>>), message |-> ""]

\* the phone length test off by one
build_student_id_strict(d, ph) ==
    IF ~(isinstance_str(d) /\ len(d) = 8 /\ isdigit(d))
      THEN ValueError("Invalid dob: expect YYYYMMDD digits")
    ELSE IF ~(isinstance_str(ph) /\ isdigit(ph) /\ len(ph) > 7)
      THEN ValueError("Invalid phone: expect digits only >=7 length")
    ELSE Returned(Str(d.chars \o ph.chars))

build_student_id(d, ph) ==
    IF ~(isinstance_str(d) /\ len(d) = 8 /\ isdigit(d))
      THEN ValueError("Invalid dob: expect YYYYMMDD digits")
    ELSE IF ~(isinstance_str(ph) /\ isdigit(ph) /\ len(ph) >= 7)
      THEN ValueError("Invalid phone: expect digits only >=7 length")
    ELSE Returned(Str(d.chars \o ph.chars))

\* the texts tried: n characters, digits except for the one at place bad
Text(n, bad, c) ==
    [i \in 1..n |-> IF i = bad THEN c ELSE DigitRow[(i % 10) + 1]]

Texts(maxlen) ==
    UNION {{Str(Text(n, bad, "-")) : bad \in 0..n} : n \in 0..maxlen}

DobInputs ==
    Texts(MaxDobLen)
      \cup {NotStr, Str(<<"2", "0", "0", "1", "-", "0", "4", "-", "0", "3">>),
            Str(<<"2", "0", "0", "1", "0", "4", "0", "a">>)}

PhoneInputs ==
    Texts(MaxPhoneLen) \cup {NotStr, Str(<<"0", "9", "0", "1", "2", "3", "x">>)}

resolve ==
    /\ result = NotCalled
    /\ result' = build_student_id(dob, phone)
    /\ UNCHANGED <<dob, phone, again>>
    /\ UNCHANGED <<students, history, clock, pc, req, obj, now, token, resp, disclosed>>

resolve_again ==
    /\ result # NotCalled
    /\ again = NotCalled
    /\ again' = build_student_id(dob, phone)
    /\ UNCHANGED <<dob, phone, result>>
    /\ UNCHANGED <<students, history, clock, pc, req, obj, now, token, resp, disclosed>>

\* ------------------------------------------------------------------ specifications
InitDb ==
    /\ students = <<>>
    /\ history = <<>>
    /\ clock = 0
    /\ pc = [p \in Workers |-> "idle"]
    /\ req = [p \in Workers |-> NoRequest]
    /\ obj = [p \in Workers |-> NoStudent]
    /\ now = [p \in Workers |-> 0]
    /\ token = [p \in Workers |-> NoToken]
    /\ resp = [p \in Workers |-> NoResp]
    /\ disclosed = [s \in Ids |-> 0]

\* the students API, no resolver call in sight
Init ==
    /\ InitDb
    /\ dob = NotStr
    /\ phone = NotStr
    /\ result = NotCalled
    /\ again = NotCalled

Next ==
    \/ \E p \in Workers : post_students(p)
    \/ \E p \in Workers : get_students(p)
    \/ \E p \in Workers : put_students(p)
    \/ \E p \in Workers : create_student(p)
    \/ \E p \in Workers : create_commit(p)
    \/ \E p \in Workers : create_return(p)
    \/ \E p \in Workers : get_student(p)
    \/ \E p \in Workers : update_student(p)
    \/ \E p \in Workers : update_stamp(p)
    \/ \E p \in Workers : update_commit(p)
    \/ \E p \in Workers : update_return(p)

Spec == Init /\ [][Next]_vars

\* the resolver alone, on every pair of inputs
InitId ==
    /\ InitDb
    /\ dob \in DobInputs
    /\ phone \in PhoneInputs
    /\ result = NotCalled
    /\ again = NotCalled

NextId == resolve \/ resolve_again

SpecId == InitId /\ [][NextId]_vars

\* ------------------------------------------------------------------ claims
HistoryOf(s) == {i \in 1..Len(history) : history[i].student_id = s}

RowsAt(s, v) == {i \in HistoryOf(s) : history[i].version = v}

\* C1: every stored Student's version equals the number of StudentHistory
\* rows with its student_id, plus 1.
C1_VersionCountsHistory ==
    \A s \in DOMAIN students :
        students[s].version = Cardinality(HistoryOf(s)) + 1

\* C2: the StudentHistory rows of one student_id carry exactly the versions
\* 1..(current version - 1), each version once.
C2_HistoryContiguous ==
    \A s \in DOMAIN students :
        /\ \A i \in HistoryOf(s) : history[i].version \in 1..(students[s].version - 1)
        /\ \A v \in 1..(students[s].version - 1) : Cardinality(RowsAt(s, v)) = 1

\* C3: of two update_student calls that read the same version, only one
\* writes; the one that comes to its commit after the record has moved on
\* fails with a ConflictError (409) and writes nothing.
C3_StaleWriterConflicts ==
    [][\A p \in Workers :
          (/\ pc[p] = "update_commit"
           /\ pc'[p] # "update_commit"
           /\ students[obj[p].id].version # obj[p].version)
          => (/\ resp'[p].status = 409
              /\ students' = students
              /\ history' = history)]_vars

\* C4: an update_student call on a stored record with an edit_token other
\* than the stored one is answered 403 "invalid edit token" and leaves the
\* students row and the student_history rows as they were.
C4_WrongTokenRejected ==
    [][\A p \in Workers :
          (/\ pc[p] = "recv"
           /\ pc'[p] # "recv"
           /\ req[p].op = "update_student"
           /\ req[p].student_id \in DOMAIN students
           /\ students[req[p].student_id].edit_token # req[p].edit_token)
          => (/\ resp'[p] = [op |-> "update_student", status |-> 403,
                             body |-> [detail |-> "invalid edit token"]]
              /\ students' = students
              /\ history' = history)]_vars

C4_Witness ==
    \E p \in Workers :
        /\ resp[p].op = "update_student"
        /\ resp[p].status = 403
        /\ students # <<>>

\* C5 as claimed: update_student on an id with no stored record creates the
\* record at version 1, writes no history row and is never answered 404.
C5_UpdateUpserts ==
    [][\A p \in Workers :
          (/\ pc[p] = "recv"
           /\ pc'[p] # "recv"
           /\ req[p].op = "update_student"
           /\ req[p].student_id \notin DOMAIN students)
          => (/\ resp'[p].status # 404
              /\ req[p].student_id \in DOMAIN students'
              /\ students'[req[p].student_id].version = 1
              /\ history' = history)]_vars

\* C5 as amended: update_student on an id with no stored record is answered
\* 404 "student not found" and writes nothing; a record comes into being
\* only by the commit of a create_student call, at version 1 and with no
\* history row written.
C5_UpdateOfAbsentIsNotFound ==
    [][/\ \A p \in Workers :
            (/\ pc[p] = "recv"
             /\ pc'[p] # "recv"
             /\ req[p].op = "update_student"
             /\ req[p].student_id \notin DOMAIN students)
            => (/\ resp'[p] = [op |-> "update_student", status |-> 404,
                               body |-> [detail |-> "student not found"]]
                /\ students' = students
                /\ history' = history)
       /\ \A s \in (DOMAIN students') \ (DOMAIN students) :
            /\ students'[s].version = 1
            /\ history' = history
            /\ \E p \in Workers : req[p].op = "create_student" /\ pc[p] # pc'[p]]_vars

C5_Witness ==
    \E p \in Workers :
        /\ resp[p] = [op |-> "update_student", status |-> 404,
                      body |-> [detail |-> "student not found"]]
        /\ students = <<>>
        /\ history = <<>>

C7_TokenOnlyOnCreate ==
    /\ \A p \in Workers :
          "edit_token" \in DOMAIN resp[p].body => resp[p].op = "create_student"
    /\ \A s \in Ids :
          /\ disclosed[s] <= 1
          /\ disclosed[s] = 1 => s \in DOMAIN students
          /\ (/\ s \in DOMAIN students
              /\ \A p \in Workers : ~(pc[p] = "create_refresh" /\ obj[p].id = s))
             => disclosed[s] = 1

C7_Witness ==
    \E p, q \in Workers :
        /\ resp[p].op = "create_student"
        /\ resp[p].status = 200
        /\ resp[p].body.edit_token = students[resp[p].body.id].edit_token
        /\ resp[q].op \in {"get_student", "update_student"}
        /\ resp[q].status = 200

\* what build_student_id is claimed to accept
DigitString(x) ==
    x.type = "str" /\ \A i \in 1..Len(x.chars) : x.chars[i] \in Digits

\* C8 as claimed: build_student_id(dob, phone) returns dob + phone exactly
\* when dob is 8 digits and phone is 7 to 20 digits, raises otherwise, and
\* gives the same outcome when called again.
C8_SevenToTwentyDigits ==
    result # NotCalled =>
        /\ result.kind = "return" <=>
              (/\ DigitString(dob) /\ Len(dob.chars) = 8
               /\ DigitString(phone) /\ Len(phone.chars) \in 7..20)
        /\ result.kind = "return" => result.value = Str(dob.chars \o phone.chars)
        /\ result.kind # "return" => result.kind = "raise"
        /\ again # NotCalled => again = result

\* C8 as amended: build_student_id(dob, phone) returns dob + phone exactly
\* when dob is 8 digits and phone is 7 or more digits, with no upper limit
\* on the length of phone; it raises ValueError otherwise, and gives the
\* same outcome when called again.
C8_SevenOrMoreDigits ==
    result # NotCalled =>
        /\ result.kind = "return" <=>
              (/\ DigitString(dob) /\ Len(dob.chars) = 8
               /\ DigitString(phone) /\ Len(phone.chars) >= 7)
        /\ result.kind = "return" => result.value = Str(dob.chars \o phone.chars)
        /\ result.kind # "return" => result.kind = "raise"
        /\ again # NotCalled => again = result

C8_Witness ==
    /\ result.kind = "return"
    /\ Len(phone.chars) > 20
    /\ again = result

\* C9: no write lowers a record's updated_at.
C9_UpdatedAtNeverDecreases ==
    [][\A s \in DOMAIN students :
          students'[s].updated_at >= students[s].updated_at]_vars

\* C10: an update_student call that found the record at version N (the row
\* db.get gave it) and commits sets the version to N+1 and appends one
\* StudentHistory row, of version N, whose snapshot holds the id, dob, phone,
\* name, version and updated_at of the row it found; it leaves id and
\* edit_token alone, and name too when the payload has none.
C10_UpdateSnapshotsAndIncrements ==
    [][\A p \in Workers :
          /\ (pc[p] = "recv" /\ pc'[p] = "update_loaded")
             => obj'[p] = students[req[p].student_id]
          /\ (pc[p] = "update_commit" /\ pc'[p] = "update_refresh")
             => LET o == obj[p]
                    s == obj[p].id
                IN /\ students'[s].version = o.version + 1
                   /\ Len(history') = Len(history) + 1
                   /\ SubSeq(history', 1, Len(history)) = history
                   /\ history'[Len(history')] =
                        [student_id |-> s, version |-> o.version,
                         snapshot |-> [id |-> o.id, dob |-> o.dob, phone |-> o.phone,
                                       name |-> o.name, version |-> o.version,
                                       updated_at |-> <<"iso", o.updated_at>>]]
                   /\ students'[s].id = students[s].id
                   /\ students'[s].edit_token = students[s].edit_token
                   /\ req[p].name = None => students'[s].name = students[s].name
                   /\ DOMAIN students' = DOMAIN students]_vars

C10_Witness ==
    \E p \in Workers :
        /\ pc[p] = "update_refresh"
        /\ req[p].name = None
        /\ students[obj[p].id].version = 2
        /\ students[obj[p].id].name = "Alice"
        /\ history = <<[student_id |-> obj[p].id, version |-> 1,
                        snapshot |-> [id |-> obj[p].id, dob |-> None, phone |-> None,
                                      name |-> "Alice", version |-> 1,
                                      updated_at |-> <<"iso", 0>>]]>>

====
